---- MODULE Spec2Model ----
(***************************************************************************)
(* Model of the text-conversion core of src/app.py: the delimiter          *)
(* normalizer preprocess_text and the export generators.                   *)
(*                                                                         *)
(* A text is a sequence of lexemes.  Single characters are one-character   *)
(* strings (the dollar, the hash, the newline NL, ...); "x" stands for an   *)
(* ordinary character that no pattern of the program mentions.  In the     *)
(* normalizer's texts the LaTeX lexemes \[ \] \( \) \begin{env} \end{env}  *)
(* are single tokens.  Every re.sub of the source is modelled as Python    *)
(* runs it: leftmost match first, lazy groups take the shortest extension  *)
(* that lets the rest of the pattern match, lookarounds read the original  *)
(* string, and the scan resumes right after the end of the match.          *)
(***************************************************************************)
EXTENDS Integers, Sequences, FiniteSets, TLC

\* A text given to one function of the conversion core, its result, the
\* result of a second pass, and which function ran.
VARIABLES text, out, again, op

\* The session of the application: st.session_state and the widgets of the
\* sidebar (lines 847-870, 893-898), and the libraries the interpreter can
\* import (lines 455, 540).
VARIABLES input_text_area, raw_text, rendered_text, is_rendered,
          view_mode, allow_html, enable_latex_fix, export_format,
          fpdf_installed, reportlab_installed

\* What the last run of the script put on the page: the preview, the copy
\* button, the download button and the statistics.  Each is a set, empty
\* when the script did not build the element.
VARIABLES preview, copy_button, download, stats

session == <<input_text_area, raw_text, rendered_text, is_rendered,
             view_mode, allow_html, enable_latex_fix, export_format,
             fpdf_installed, reportlab_installed>>

page == <<preview, copy_button, download, stats>>

vars == <<text, out, again, op, session, page>>

(***************************************************************************)
(* Lexemes                                                                 *)
(***************************************************************************)
NL == "\n"
D  == "$"
X  == "x"
LB == "\\["
RB == "\\]"
LP == "\\("
RP == "\\)"
Begin(env) == "\\begin{" \o env \o "}"
End(env)   == "\\end{" \o env \o "}"

(***************************************************************************)
(* Sequence helpers                                                        *)
(***************************************************************************)
MinOf(S) == CHOOSE k \in S : \A m \in S : k <= m

\* Least index k >= from with s[k] = tok, 0 when there is none.
IndexFrom(s, tok, from) ==
    LET K == {k \in from..Len(s) : s[k] = tok}
    IN  IF K = {} THEN 0 ELSE MinOf(K)

\* The sequence p occurs in s at position i.
OccursAt(s, p, i) ==
    /\ i >= 1
    /\ i + Len(p) - 1 <= Len(s)
    /\ \A k \in 1..Len(p) : s[i + k - 1] = p[k]

Contains(s, p) == \E i \in 1..(Len(s) + 1) : OccursAt(s, p, i)

RECURSIVE Repeat(_, _)
Repeat(c, n) == IF n <= 0 THEN <<>> ELSE <<c>> \o Repeat(c, n - 1)

RECURSIVE SeqsUpTo(_, _)
\* All sequences over the set A of length at most n.
SeqsUpTo(A, n) ==
    IF n = 0 THEN {<<>>}
    ELSE LET S == SeqsUpTo(A, n - 1)
         IN  S \cup {Append(s, a) : s \in {t \in S : Len(t) = n - 1}, a \in A}

(***************************************************************************)
(* preprocess_text, src/app.py lines 40-54                                 *)
(***************************************************************************)

\* Line 43, the replacement template r'$$\1$$'.
DisplayRepl(body) == <<D, D>> \o body \o <<D, D>>

\* Line 43 with a greedy group (.*) in place of the lazy (.*?): the match
\* that starts at a \[ runs to the last \] of the text.
DisplayEndGreedy(s, i) ==
    LET K == {k \in (i + 1)..Len(s) : s[k] = RB}
    IN  IF s[i] # LB \/ K = {} THEN 0 ELSE CHOOSE k \in K : \A m \in K : k >= m

\* Line 43 with an optional closing delimiter: a \[ that no \] follows is
\* matched up to the end of the text.
DisplayEndOrEof(s, i) ==
    IF s[i] # LB THEN 0
    ELSE IF IndexFrom(s, RB, i + 1) = 0 THEN Len(s)
    ELSE IndexFrom(s, RB, i + 1)

\* Line 43, the pattern \\\[(.*?)\\\] under re.DOTALL: end of the match that
\* starts at i (the first \] after a \[), 0 when there is no match at i.
DisplayEnd(s, i) ==
    IF s[i] # LB THEN 0 ELSE IndexFrom(s, RB, i + 1)

DisplayStart(s, pos) ==
    LET I == {i \in pos..Len(s) : DisplayEnd(s, i) # 0}
    IN  IF I = {} THEN 0 ELSE MinOf(I)

RECURSIVE SubDisplayFrom(_, _)
SubDisplayFrom(s, pos) ==
    LET i == DisplayStart(s, pos)
    IN  IF i = 0 THEN SubSeq(s, pos, Len(s))
        ELSE LET j == DisplayEnd(s, i)
             IN  SubSeq(s, pos, i - 1) \o DisplayRepl(SubSeq(s, i + 1, j - 1))
                     \o SubDisplayFrom(s, j + 1)

\* Line 43: re.sub(r'\\\[(.*?)\\\]', r'$$\1$$', text, flags=re.DOTALL)
SubDisplay(s) == SubDisplayFrom(s, 1)

\* Line 44, the replacement template r'$\1$'.
InlineRepl(body) == <<D>> \o body \o <<D>>

\* Line 44 with flags=re.DOTALL added, as on line 43: the group also takes
\* newlines.
InlineBodyAny(s, i, j) == TRUE

\* Line 44, the group (.*?) without re.DOTALL: '.' matches all but newline.
InlineBodyOk(s, i, j) == \A k \in (i + 1)..(j - 1) : s[k] # NL

\* Line 44, the pattern \\\((.*?)\\\): end of the match starting at i, or 0.
InlineEnd(s, i) ==
    IF s[i] # LP THEN 0
    ELSE LET j == IndexFrom(s, RP, i + 1)
         IN  IF j # 0 /\ InlineBodyOk(s, i, j) THEN j ELSE 0

InlineStart(s, pos) ==
    LET I == {i \in pos..Len(s) : InlineEnd(s, i) # 0}
    IN  IF I = {} THEN 0 ELSE MinOf(I)

RECURSIVE SubInlineFrom(_, _)
SubInlineFrom(s, pos) ==
    LET i == InlineStart(s, pos)
    IN  IF i = 0 THEN SubSeq(s, pos, Len(s))
        ELSE LET j == InlineEnd(s, i)
             IN  SubSeq(s, pos, i - 1) \o InlineRepl(SubSeq(s, i + 1, j - 1))
                     \o SubInlineFrom(s, j + 1)

\* Line 44: re.sub(r'\\\((.*?)\\\)', r'$\1$', text)
SubInline(s) == SubInlineFrom(s, 1)

\* Lines 46-48: content is match.group(0), the whole match.
wrap_equation(content) == <<NL, D, D, NL>> \o content \o <<NL, D, D, NL>>

\* Line 50.
environments ==
    <<"equation", "align", "aligned", "gather", "matrix", "bmatrix", "pmatrix">>

\* Line 52, (?<!\$\$): the two characters before position i are not "$$".
NotAfterDollars(s, i) == ~(i >= 3 /\ s[i - 2] = D /\ s[i - 1] = D)

\* Line 52, (?!\$\$): the two characters from position i on are not "$$".
NotBeforeDollars(s, i) == ~(i + 1 <= Len(s) /\ s[i] = D /\ s[i + 1] = D)

\* Line 52, the pattern (?<!\$\$)\n\\begin\{env\}(.*?)\\end\{env\}\n(?!\$\$)
\* under re.DOTALL: index of the match's last character (the newline after
\* the first \end{env} that the lookahead accepts), 0 when no match starts at i.
EnvEnd(s, env, i) ==
    IF ~(i + 1 <= Len(s) /\ s[i] = NL /\ s[i + 1] = Begin(env)
            /\ NotAfterDollars(s, i))
    THEN 0
    ELSE LET J == {j \in (i + 2)..(Len(s) - 1) :
                     /\ s[j] = End(env)
                     /\ s[j + 1] = NL
                     /\ NotBeforeDollars(s, j + 2)}
         IN  IF J = {} THEN 0 ELSE MinOf(J) + 1

EnvStart(s, env, pos) ==
    LET I == {i \in pos..Len(s) : EnvEnd(s, env, i) # 0}
    IN  IF I = {} THEN 0 ELSE MinOf(I)

RECURSIVE WrapEnvFrom(_, _, _)
WrapEnvFrom(s, env, pos) ==
    LET i == EnvStart(s, env, pos)
    IN  IF i = 0 THEN SubSeq(s, pos, Len(s))
        ELSE LET j == EnvEnd(s, env, i)
             IN  SubSeq(s, pos, i - 1) \o wrap_equation(SubSeq(s, i, j))
                     \o WrapEnvFrom(s, env, j + 1)

\* Line 53: re.sub(pattern, wrap_equation, text, flags=re.DOTALL)
WrapEnv(s, env) == WrapEnvFrom(s, env, 1)

RECURSIVE WrapEnvironments(_, _)
\* Lines 51-53: the loop over environments, from the k-th name on.
WrapEnvironments(s, k) ==
    IF k > Len(environments) THEN s
    ELSE WrapEnvironments(WrapEnv(s, environments[k]), k + 1)

\* Lines 40-54.
preprocess_text(t) ==
    IF t = <<>> THEN <<>>
    ELSE WrapEnvironments(SubInline(SubDisplay(t)), 1)

(***************************************************************************)
(* Character classes and line structure used by the generators' patterns   *)
(***************************************************************************)
SP == " "
HASH == "#"
\* The backtick character (SANY cannot read it inside a string).
TICK == "<backtick>"
DASH == "-"
STAR == "*"
BANG == "!"
GT == ">"

\* \s: the texts of the model hold the blank and the newline.
IsSpace(c) == c \in {SP, NL}

\* \w: letters, digits and underscore; X stands for them.
IsWord(c) == c = X

MaxOf(S) == CHOOSE k \in S : \A m \in S : k >= m

\* ^ under re.MULTILINE.
LineStart(s, i) == i = 1 \/ s[i - 1] = NL

\* Least index k >= i with s[k] = c, Len(s) + 1 when there is none.
NextOrEnd(s, c, i) ==
    MinOf({k \in i..(Len(s) + 1) : k = Len(s) + 1 \/ s[k] = c})

\* Index of the last character of the line that position i is on (i - 1 when
\* s[i] is a newline or i is past the end): where a greedy .+ followed by $
\* stops under re.MULTILINE.
Eol(s, i) == NextOrEnd(s, NL, i) - 1

\* Number of consecutive copies of c in s from position i on.
RunOf(s, c, i) ==
    MinOf({k \in i..(Len(s) + 1) : k = Len(s) + 1 \/ s[k] # c}) - i

RECURSIVE Strip(_)
\* str.strip()
Strip(t) ==
    IF t = <<>> THEN <<>>
    ELSE IF IsSpace(t[1]) THEN Strip(Tail(t))
    ELSE IF IsSpace(t[Len(t)]) THEN Strip(SubSeq(t, 1, Len(t) - 1))
    ELSE t

(***************************************************************************)
(* generate_txt and generate_md, src/app.py lines 366-371                  *)
(***************************************************************************)
\* Lines 366-367 returning raw_text.replace of the backtick by nothing.
generate_txt_no_backticks(raw) == SelectSeq(raw, LAMBDA c : c # TICK)

\* Lines 366-367: return raw_text.
generate_txt(raw) == raw

\* Lines 370-371 returning the normalized text.
generate_md_normalized(raw) == preprocess_text(raw)

\* Lines 370-371: return raw_text.
generate_md(raw) == raw

(***************************************************************************)
(* generate_rst, src/app.py lines 374-395                                  *)
(***************************************************************************)

\* Line 379, the dict chars of the underline characters by level; line 380
\* reads it with the double quote as the default.
UnderlineChar(level) ==
    CASE level = 1 -> "="
      [] level = 2 -> DASH
      [] level = 3 -> "~"
      [] level = 4 -> "^"
      [] OTHER -> "\""

\* Lines 376-384; title is match.group(2).
replace_header(level, group2) ==
    LET title == Strip(group2)
        underline == Repeat(UnderlineChar(level), Len(title))
    IN  IF level = 1 THEN underline \o <<NL>> \o title \o <<NL>> \o underline
        ELSE title \o <<NL>> \o underline

\* Line 385, the pattern ^(#{1,5})\s+(.+)$ under re.MULTILINE: where group 2
\* starts in the match that starts at i, 0 when there is no match at i.  The
\* run of # must be 1 to 5 long; \s+ takes as much white space (newlines
\* included) as leaves a character other than newline for (.+).
RstTitleStart(s, i) ==
    LET r == RunOf(s, HASH, i)
        w == i + r
        wend == MinOf({k \in w..(Len(s) + 1) : k = Len(s) + 1 \/ ~IsSpace(s[k])})
        Q == {q \in (w + 1)..wend : q <= Len(s) /\ s[q] # NL}
    IN  IF LineStart(s, i) /\ r >= 1 /\ r <= 5 /\ Q # {} THEN MaxOf(Q) ELSE 0

RstHeaderStart(s, pos) ==
    LET I == {i \in pos..Len(s) : RstTitleStart(s, i) # 0}
    IN  IF I = {} THEN 0 ELSE MinOf(I)

RECURSIVE SubRstHeaderFrom(_, _)
SubRstHeaderFrom(s, pos) ==
    LET i == RstHeaderStart(s, pos)
    IN  IF i = 0 THEN SubSeq(s, pos, Len(s))
        ELSE LET q == RstTitleStart(s, i)
                 j == Eol(s, q)
             IN  SubSeq(s, pos, i - 1)
                     \o replace_header(RunOf(s, HASH, i), SubSeq(s, q, j))
                     \o SubRstHeaderFrom(s, j + 1)

\* Line 385.
SubRstHeader(s) == SubRstHeaderFrom(s, 1)

\* Line 386, the pattern: a backtick neither preceded nor followed by a
\* backtick, one or more characters other than backtick, and again a backtick
\* neither preceded nor followed by one.  Index of the closing backtick of
\* the match that starts at i, 0 when there is no match at i.
RstCodeEnd(s, i) ==
    LET j == NextOrEnd(s, TICK, i + 1)
    IN  IF /\ s[i] = TICK
           /\ (i = 1 \/ s[i - 1] # TICK)
           /\ j > i + 1
           /\ j <= Len(s)
           /\ (j = Len(s) \/ s[j + 1] # TICK)
        THEN j ELSE 0

RstCodeStart(s, pos) ==
    LET I == {i \in pos..Len(s) : RstCodeEnd(s, i) # 0}
    IN  IF I = {} THEN 0 ELSE MinOf(I)

RECURSIVE SubRstCodeFrom(_, _)
SubRstCodeFrom(s, pos) ==
    LET i == RstCodeStart(s, pos)
    IN  IF i = 0 THEN SubSeq(s, pos, Len(s))
        ELSE LET j == RstCodeEnd(s, i)
             IN  SubSeq(s, pos, i - 1) \o <<TICK, TICK>> \o SubSeq(s, i + 1, j - 1)
                     \o <<TICK, TICK>> \o SubRstCodeFrom(s, j + 1)

\* Line 386: the replacement doubles the backtick on both sides of group 1.
SubRstCode(s) == SubRstCodeFrom(s, 1)

\* Lines 387 and 436, the pattern \[([^\]]+)\]\(([^)]+)\): index of the ]
\* that closes group 1 in the match that starts at i, 0 when there is none.
LinkMid(s, i) ==
    LET j == NextOrEnd(s, "]", i + 1)
        k == NextOrEnd(s, ")", j + 2)
    IN  IF /\ s[i] = "["
           /\ j > i + 1
           /\ j + 1 <= Len(s)
           /\ s[j + 1] = "("
           /\ k > j + 2
           /\ k <= Len(s)
        THEN j ELSE 0

\* Index of the ) that ends the link or image whose group 1 closes at j.
LinkEnd(s, j) == NextOrEnd(s, ")", j + 2)

LinkStart(s, pos) ==
    LET I == {i \in pos..Len(s) : LinkMid(s, i) # 0}
    IN  IF I = {} THEN 0 ELSE MinOf(I)

\* Line 387, the replacement: backtick, group 1, blank, <group 2>, backtick,
\* underscore.
RstLink(linktext, url) ==
    <<TICK>> \o linktext \o <<SP, "<">> \o url \o <<">", TICK, "_">>

RECURSIVE SubRstLinkFrom(_, _)
SubRstLinkFrom(s, pos) ==
    LET i == LinkStart(s, pos)
    IN  IF i = 0 THEN SubSeq(s, pos, Len(s))
        ELSE LET j == LinkMid(s, i)
                 k == LinkEnd(s, j)
             IN  SubSeq(s, pos, i - 1)
                     \o RstLink(SubSeq(s, i + 1, j - 1), SubSeq(s, j + 2, k - 1))
                     \o SubRstLinkFrom(s, k + 1)

\* Line 387.
SubRstLink(s) == SubRstLinkFrom(s, 1)

\* Lines 388-391: f".. image:: {url}\n   :alt: {alt}".
replace_image(alt, url) ==
    <<".", ".", SP, "image::", SP>> \o url \o <<NL, SP, SP, SP, ":alt:", SP>> \o alt

\* Line 392, the pattern !\[([^\]]*)\]\(([^)]+)\): index of the ] that closes
\* group 1 (which may be empty) in the match that starts at i, 0 when none.
ImageMid(s, i) ==
    LET j == NextOrEnd(s, "]", i + 2)
        k == NextOrEnd(s, ")", j + 2)
    IN  IF /\ s[i] = BANG
           /\ i + 1 <= Len(s)
           /\ s[i + 1] = "["
           /\ j + 1 <= Len(s)
           /\ s[j + 1] = "("
           /\ k > j + 2
           /\ k <= Len(s)
        THEN j ELSE 0

ImageStart(s, pos) ==
    LET I == {i \in pos..Len(s) : ImageMid(s, i) # 0}
    IN  IF I = {} THEN 0 ELSE MinOf(I)

RECURSIVE SubRstImageFrom(_, _)
SubRstImageFrom(s, pos) ==
    LET i == ImageStart(s, pos)
    IN  IF i = 0 THEN SubSeq(s, pos, Len(s))
        ELSE LET j == ImageMid(s, i)
                 k == LinkEnd(s, j)
             IN  SubSeq(s, pos, i - 1)
                     \o replace_image(SubSeq(s, i + 2, j - 1), SubSeq(s, j + 2, k - 1))
                     \o SubRstImageFrom(s, k + 1)

\* Line 392.
SubRstImage(s) == SubRstImageFrom(s, 1)

\* Lines 393-394: '-' * 40.
RuleWidth == 40

\* Lines 393, 394 and 441, the patterns ^---+$ and ^\*\*\*+$ under
\* re.MULTILINE: a whole line of three or more copies of c starts at i.
IsRuleLine(s, c, i) ==
    /\ LineStart(s, i)
    /\ RunOf(s, c, i) >= 3
    /\ Eol(s, i) = i + RunOf(s, c, i) - 1

RuleStart(s, c, pos) ==
    LET I == {i \in pos..Len(s) : IsRuleLine(s, c, i)}
    IN  IF I = {} THEN 0 ELSE MinOf(I)

RECURSIVE SubRuleFrom(_, _, _, _)
\* Every rule line of c's in s, from pos on, replaced by the sequence by.
SubRuleFrom(s, c, by, pos) ==
    LET i == RuleStart(s, c, pos)
    IN  IF i = 0 THEN SubSeq(s, pos, Len(s))
        ELSE SubSeq(s, pos, i - 1) \o by \o SubRuleFrom(s, c, by, Eol(s, i) + 1)

\* Lines 393-394.
SubRstRules(s) ==
    SubRuleFrom(SubRuleFrom(s, DASH, Repeat(DASH, RuleWidth), 1),
                STAR, Repeat(DASH, RuleWidth), 1)

\* Lines 374-395 run on the normalized text.
generate_rst_normalized(raw) ==
    SubRstRules(SubRstImage(SubRstLink(SubRstCode(SubRstHeader(preprocess_text(raw))))))

\* Lines 374-395.
generate_rst(raw) ==
    SubRstRules(SubRstImage(SubRstLink(SubRstCode(SubRstHeader(raw)))))

(***************************************************************************)
(* generate_latex_doc, src/app.py lines 398-443                            *)
(***************************************************************************)

\* Lines 400-421: the fixed preamble, which ends with \begin{document} and a
\* newline; the packages and the \lstset block before it are one lexeme.
preamble == <<"\\documentclass...\\lstset{...}", NL, NL, "\\begin{document}", NL>>

\* Lines 422-423.
postamble == <<NL, "\\end{document}">>

\* Lines 425-428 and 442, the patterns ^# (.+)$, ^## (.+)$, ... and ^> (.+)$
\* under re.MULTILINE: a line that starts with the marker, a blank and at
\* least one more character starts at i.
IsMarkedLine(s, marker, i) ==
    /\ LineStart(s, i)
    /\ OccursAt(s, marker \o <<SP>>, i)
    /\ i + Len(marker) + 1 <= Len(s)
    /\ s[i + Len(marker) + 1] # NL

MarkedLineStart(s, marker, pos) ==
    LET I == {i \in pos..Len(s) : IsMarkedLine(s, marker, i)}
    IN  IF I = {} THEN 0 ELSE MinOf(I)

RECURSIVE SubMarkedLineFrom(_, _, _, _, _)
\* Every marked line of s, from pos on, replaced by opening, the rest of the
\* line after the marker and the blank, closing.
SubMarkedLineFrom(s, marker, opening, closing, pos) ==
    LET i == MarkedLineStart(s, marker, pos)
    IN  IF i = 0 THEN SubSeq(s, pos, Len(s))
        ELSE LET g == i + Len(marker) + 1
             IN  SubSeq(s, pos, i - 1) \o opening \o SubSeq(s, g, Eol(s, g)) \o closing
                     \o SubMarkedLineFrom(s, marker, opening, closing, Eol(s, g) + 1)

\* Lines 425-428 with the command of line 426 also written on line 427.
HeaderCommandRepeated(level) ==
    CASE level = 1 -> "\\section{"
      [] level = 2 -> "\\subsection{"
      [] level = 3 -> "\\subsection{"
      [] OTHER -> "\\paragraph{"

\* Lines 425-428: the command of a header of the given number of #.
HeaderCommand(level) ==
    CASE level = 1 -> "\\section{"
      [] level = 2 -> "\\subsection{"
      [] level = 3 -> "\\subsubsection{"
      [] OTHER -> "\\paragraph{"

\* One of the lines 425-428.
SubTexHeader(s, level) ==
    SubMarkedLineFrom(s, Repeat(HASH, level), <<HeaderCommand(level)>>, <<"}">>, 1)

\* Lines 425-428, in this order.
SubTexHeaders(s) ==
    SubTexHeader(SubTexHeader(SubTexHeader(SubTexHeader(s, 1), 2), 3), 4)

\* Lines 429-430, the patterns \*\*\*(.+?)\*\*\* and \*\*(.+?)\*\*: where
\* the closing run of n stars starts in the match that starts at i, 0 when
\* there is no match at i.  The lazy group takes one or more characters other
\* than newline.
StarsEnd(s, n, i) ==
    LET J == {j \in (i + n + 1)..(Len(s) - n + 1) :
                 /\ OccursAt(s, Repeat(STAR, n), j)
                 /\ \A k \in (i + n)..(j - 1) : s[k] # NL}
    IN  IF OccursAt(s, Repeat(STAR, n), i) /\ J # {} THEN MinOf(J) ELSE 0

StarsStart(s, n, pos) ==
    LET I == {i \in pos..Len(s) : StarsEnd(s, n, i) # 0}
    IN  IF I = {} THEN 0 ELSE MinOf(I)

RECURSIVE SubStarsFrom(_, _, _, _, _)
SubStarsFrom(s, n, opening, closing, pos) ==
    LET i == StarsStart(s, n, pos)
    IN  IF i = 0 THEN SubSeq(s, pos, Len(s))
        ELSE LET j == StarsEnd(s, n, i)
             IN  SubSeq(s, pos, i - 1) \o opening \o SubSeq(s, i + n, j - 1) \o closing
                     \o SubStarsFrom(s, n, opening, closing, j + n)

\* Line 429.
SubTexBoldItalic(s) ==
    SubStarsFrom(s, 3, <<"\\textbf{", "\\textit{">>, <<"}", "}">>, 1)

\* Line 430.
SubTexBold(s) == SubStarsFrom(s, 2, <<"\\textbf{">>, <<"}">>, 1)

\* A star at i with no star right before it and none right after it.
LoneStar(s, i) ==
    /\ i >= 1
    /\ i <= Len(s)
    /\ s[i] = STAR
    /\ (i = 1 \/ s[i - 1] # STAR)
    /\ (i = Len(s) \/ s[i + 1] # STAR)

\* Line 431, the pattern (?<!\*)\*(?!\*)(.+?)(?<!\*)\*(?!\*): index of the
\* closing star of the match that starts at i, 0 when there is none.
ItalicEnd(s, i) ==
    LET J == {j \in (i + 2)..Len(s) :
                 /\ LoneStar(s, j)
                 /\ \A k \in (i + 1)..(j - 1) : s[k] # NL}
    IN  IF LoneStar(s, i) /\ J # {} THEN MinOf(J) ELSE 0

ItalicStart(s, pos) ==
    LET I == {i \in pos..Len(s) : ItalicEnd(s, i) # 0}
    IN  IF I = {} THEN 0 ELSE MinOf(I)

RECURSIVE SubTexItalicFrom(_, _)
SubTexItalicFrom(s, pos) ==
    LET i == ItalicStart(s, pos)
    IN  IF i = 0 THEN SubSeq(s, pos, Len(s))
        ELSE LET j == ItalicEnd(s, i)
             IN  SubSeq(s, pos, i - 1) \o <<"\\textit{">> \o SubSeq(s, i + 1, j - 1)
                     \o <<"}">> \o SubTexItalicFrom(s, j + 1)

\* Line 431.
SubTexItalic(s) == SubTexItalicFrom(s, 1)

\* Line 432, the pattern: a backtick, one or more characters other than
\* backtick (newlines included), a backtick.  Index of the closing backtick
\* of the match that starts at i, 0 when there is no match at i.
TexCodeEnd(s, i) ==
    LET j == NextOrEnd(s, TICK, i + 1)
    IN  IF s[i] = TICK /\ j > i + 1 /\ j <= Len(s) THEN j ELSE 0

TexCodeStart(s, pos) ==
    LET I == {i \in pos..Len(s) : TexCodeEnd(s, i) # 0}
    IN  IF I = {} THEN 0 ELSE MinOf(I)

RECURSIVE SubTexCodeFrom(_, _)
SubTexCodeFrom(s, pos) ==
    LET i == TexCodeStart(s, pos)
    IN  IF i = 0 THEN SubSeq(s, pos, Len(s))
        ELSE LET j == TexCodeEnd(s, i)
             IN  SubSeq(s, pos, i - 1) \o <<"\\texttt{">> \o SubSeq(s, i + 1, j - 1)
                     \o <<"}">> \o SubTexCodeFrom(s, j + 1)

\* Line 432.
SubTexCode(s) == SubTexCodeFrom(s, 1)

RECURSIVE SubTexLinkFrom(_, _)
SubTexLinkFrom(s, pos) ==
    LET i == LinkStart(s, pos)
    IN  IF i = 0 THEN SubSeq(s, pos, Len(s))
        ELSE LET j == LinkMid(s, i)
                 k == LinkEnd(s, j)
             IN  SubSeq(s, pos, i - 1) \o <<"\\href{">> \o SubSeq(s, j + 2, k - 1)
                     \o <<"}", "{">> \o SubSeq(s, i + 1, j - 1) \o <<"}">>
                     \o SubTexLinkFrom(s, k + 1)

\* Line 433: the replacement is \href{group 2}{group 1}.
SubTexLink(s) == SubTexLinkFrom(s, 1)

FENCE == <<TICK, TICK, TICK>>

\* Lines 434-439.
replace_code_block(lang, code) ==
    IF lang # <<>>
    THEN <<"\\begin{lstlisting}", "[language=">> \o lang \o <<"]", NL>> \o code
             \o <<NL, "\\end{lstlisting}">>
    ELSE <<"\\begin{lstlisting}", NL>> \o code \o <<NL, "\\end{lstlisting}">>

\* Line 440, group 1 (\w*) of the match that starts at i: the length of the
\* run of word characters after the opening fence.
LangLen(s, i) ==
    MinOf({k \in (i + 3)..(Len(s) + 1) : k = Len(s) + 1 \/ ~IsWord(s[k])}) - (i + 3)

\* Line 440, the pattern of a fence, (\w*), a newline, (.*?) and a fence
\* under re.DOTALL: where the closing fence starts in the match that starts
\* at i, 0 when there is no match at i.
FenceEnd(s, i) ==
    LET n == i + 3 + LangLen(s, i)
        J == {j \in (n + 1)..(Len(s) - 2) : OccursAt(s, FENCE, j)}
    IN  IF OccursAt(s, FENCE, i) /\ n <= Len(s) /\ s[n] = NL /\ J # {}
        THEN MinOf(J) ELSE 0

FenceStart(s, pos) ==
    LET I == {i \in pos..Len(s) : FenceEnd(s, i) # 0}
    IN  IF I = {} THEN 0 ELSE MinOf(I)

RECURSIVE SubTexFenceFrom(_, _)
SubTexFenceFrom(s, pos) ==
    LET i == FenceStart(s, pos)
    IN  IF i = 0 THEN SubSeq(s, pos, Len(s))
        ELSE LET j == FenceEnd(s, i)
                 n == i + 3 + LangLen(s, i)
             IN  SubSeq(s, pos, i - 1)
                     \o replace_code_block(SubSeq(s, i + 3, n - 1), SubSeq(s, n + 1, j - 1))
                     \o SubTexFenceFrom(s, j + 3)

\* Line 440.
SubTexFence(s) == SubTexFenceFrom(s, 1)

\* Line 441.
SubTexRule(s) == SubRuleFrom(s, DASH, <<"\\hrulefill">>, 1)

\* Line 442.
SubTexQuote(s) ==
    SubMarkedLineFrom(s, <<GT>>, <<"\\begin{quote}", NL>>, <<NL, "\\end{quote}">>, 1)

\* Lines 425-442: the body, every substitution in the order of the source.
LatexBody(raw) ==
    SubTexQuote(SubTexRule(SubTexFence(SubTexLink(SubTexCode(
        SubTexItalic(SubTexBold(SubTexBoldItalic(SubTexHeaders(raw)))))))))

\* Line 443 without the postamble.
generate_latex_doc_no_postamble(raw) == preamble \o LatexBody(raw)

\* Line 443 returning the converted body alone.
generate_latex_doc_body_only(raw) == LatexBody(raw)

\* Lines 398-443.
generate_latex_doc(raw) == preamble \o LatexBody(raw) \o postamble

(***************************************************************************)
(* generate_rich_html_for_copy, src/app.py lines 319-363                   *)
(***************************************************************************)

\* Lines 321-348: the page template up to the argument of marked.parse(.
HtmlHead == <<"<!DOCTYPE html>...<script>...innerHTML = marked.parse(">>

\* Lines 349-362: the page template after the argument of marked.parse.
HtmlTail == <<");...</script>", NL, "</body>", NL, "</html>">>

\* Line 349, repr of one character of a text without quotes: the newline is
\* written as backslash n, the backslash that starts a LaTeX lexeme is
\* doubled, every other character stands for itself.
ReprChar(c) ==
    IF c = NL THEN <<"\\", "n">>
    ELSE IF c \in {LB, RB, LP, RP} \cup {Begin(environments[k]) : k \in 1..Len(environments)}
                 \cup {End(environments[k]) : k \in 1..Len(environments)}
    THEN <<"\\", c>>
    ELSE <<c>>

RECURSIVE ReprBody(_)
ReprBody(t) == IF t = <<>> THEN <<>> ELSE ReprChar(t[1]) \o ReprBody(Tail(t))

\* Line 349: repr(rendered_text), a Python string literal in single quotes.
PyRepr(t) == <<"'">> \o ReprBody(t) \o <<"'">>

\* Lines 319-363 with {rendered_text} on line 349 in place of
\* {repr(rendered_text)}: the text is pasted into the script without quotes.
generate_rich_html_unquoted(rendered) == HtmlHead \o rendered \o HtmlTail

\* Lines 319-363.
generate_rich_html_for_copy(rendered) ==
    HtmlHead \o PyRepr(rendered) \o HtmlTail

(***************************************************************************)
(* Document Statistics, src/app.py lines 1064-1072                         *)
(***************************************************************************)
PIPE == "|"

RECURSIVE CountFrom(_, _, _)
\* len(re.findall(p, s)) for a pattern p that is a fixed sequence of
\* characters: the occurrences of p in s from pos on, found left to right,
\* each search resuming after the end of the last occurrence.
CountFrom(s, p, pos) ==
    LET I == {i \in pos..Len(s) : OccursAt(s, p, i)}
    IN  IF I = {} THEN 0 ELSE 1 + CountFrom(s, p, MinOf(I) + Len(p))

\* Line 1065, len(raw_text.split()): the maximal runs of characters other
\* than whitespace.
words(s) ==
    Cardinality({i \in 1..Len(s) :
                    ~IsSpace(s[i]) /\ (i = 1 \/ IsSpace(s[i - 1]))})

\* Characters of one lexeme.
CharLen(c) == IF c = TICK THEN 1 ELSE Len(c)

RECURSIVE chars(_)
\* Line 1066, len(raw_text).
chars(s) == IF s = <<>> THEN 0 ELSE CharLen(s[1]) + chars(Tail(s))

\* Line 1067, raw_text.count of the newline, plus one.
lines(s) == Cardinality({i \in 1..Len(s) : s[i] = NL}) + 1

\* Line 1068 without the division by two.
code_blocks_undivided(s) == CountFrom(s, FENCE, 1)

\* Line 1068.
code_blocks(s) == CountFrom(s, FENCE, 1) \div 2

\* Line 1069 without the lookbehinds (?<!\$).
LoneDollarNoLookbehind(s, i) ==
    /\ i >= 1
    /\ i <= Len(s)
    /\ s[i] = D
    /\ (i = Len(s) \/ s[i + 1] # D)

\* Line 1069, (?<!\$)\$(?!\$): a dollar at i with no dollar right before it
\* and none right after it.
LoneDollar(s, i) ==
    /\ i >= 1
    /\ i <= Len(s)
    /\ s[i] = D
    /\ (i = 1 \/ s[i - 1] # D)
    /\ (i = Len(s) \/ s[i + 1] # D)

\* Line 1069, the pattern (?<!\$)\$(?!\$)(.+?)(?<!\$)\$(?!\$): index of the
\* closing dollar of the match that starts at i, 0 when there is none.
MathInlineEnd(s, i) ==
    LET J == {j \in (i + 2)..Len(s) :
                 /\ LoneDollar(s, j)
                 /\ \A k \in (i + 1)..(j - 1) : s[k] # NL}
    IN  IF LoneDollar(s, i) /\ J # {} THEN MinOf(J) ELSE 0

RECURSIVE MathInlineFrom(_, _)
MathInlineFrom(s, pos) ==
    LET I == {i \in pos..Len(s) : MathInlineEnd(s, i) # 0}
    IN  IF I = {} THEN 0 ELSE 1 + MathInlineFrom(s, MathInlineEnd(s, MinOf(I)) + 1)

\* Line 1069.
math_inline(s) == MathInlineFrom(s, 1)

\* Line 1070.
math_block(s) == CountFrom(s, <<D, D>>, 1) \div 2

\* Line 1071 with the separator line of a table told apart: a row that
\* holds a character other than pipe, dash, colon and blank.
IsTableRowNotSeparator(s, i) ==
    /\ LineStart(s, i)
    /\ s[i] = PIPE
    /\ Eol(s, i) >= i + 2
    /\ s[Eol(s, i)] = PIPE
    /\ \E k \in i..Eol(s, i) : s[k] \notin {PIPE, DASH, ":", SP}

\* Line 1071, the pattern ^\|(.+\|)+$ under re.MULTILINE: the line that
\* starts at i starts with a pipe, ends with a pipe and holds at least one
\* character between the two.
IsTableRow(s, i) ==
    /\ LineStart(s, i)
    /\ s[i] = PIPE
    /\ Eol(s, i) >= i + 2
    /\ s[Eol(s, i)] = PIPE

\* Line 1071.
tables(s) == Cardinality({i \in 1..Len(s) : IsTableRow(s, i)})

\* Line 1072, the pattern ^#{1,6}\s under re.MULTILINE.
IsHeaderStart(s, i) ==
    /\ LineStart(s, i)
    /\ RunOf(s, HASH, i) \in 1..6
    /\ i + RunOf(s, HASH, i) <= Len(s)
    /\ IsSpace(s[i + RunOf(s, HASH, i)])

\* Line 1072.
headers(s) == Cardinality({i \in 1..Len(s) : IsHeaderStart(s, i)})

\* Lines 1065-1072: the eight counts of the raw text.
Statistics(raw) ==
    [words |-> words(raw), chars |-> chars(raw), lines |-> lines(raw),
     code_blocks |-> code_blocks(raw), math_inline |-> math_inline(raw),
     math_block |-> math_block(raw), tables |-> tables(raw),
     headers |-> headers(raw)]

(***************************************************************************)
(* The pages and files of the export, src/app.py lines 59-316, 449-573     *)
(* and 579-581                                                             *)
(***************************************************************************)

\* Line 988: the file name field keeps its default, so fname is this.
fname == "rendered_document"

\* Lines 59-183: the page around marked.parse(repr(rendered_text)).
generate_full_html(rendered, title) ==
    <<"<!DOCTYPE html>...<title>", title, "</title>...marked.parse(">>
        \o PyRepr(rendered) \o <<");...renderMathInElement...</html>">>

\* Lines 186-316: the print-ready page around marked.parse(repr(rendered_text)).
generate_pdf_via_js(rendered, title) ==
    <<"<!DOCTYPE html>...<title>", title, "</title>...html2pdf...marked.parse(">>
        \o PyRepr(rendered) \o <<");...filename: '", title, ".pdf'...</html>">>

\* The value None of Python.
None == <<"None">>

\* An exception that leaves generate_pdf_bytes: lines 532 and 570 catch
\* ImportError and nothing else.
Raised == <<"Exception">>

\* Line 505: the bullet U+2022 that is put before a list item.
BULLET == "<bullet>"

\* Lines 475 and 502: a line starts at i whose stripped form starts with
\* a dash or a star and a blank.  A stripped line ends with no blank, so a
\* character that is no blank follows on the line.
IsListItemLine(s, i) ==
    /\ LineStart(s, i)
    /\ \E j \in i..(Eol(s, i) - 2) :
         /\ \A k \in i..(j - 1) : s[k] = SP
         /\ s[j] \in {DASH, STAR}
         /\ s[j + 1] = SP
         /\ \E m \in (j + 2)..Eol(s, i) : s[m] # SP

\* Line 505: the text that multi_cell is given for a list item.
ListItemText(s, i) ==
    <<SP, SP, BULLET, SP, SP>> \o Strip(SubSeq(s, i, Eol(s, i)))

\* multi_cell under a core font of fpdf (Helvetica, lines 476-528) encodes
\* its text as latin-1 and raises for a character outside it: that is the
\* failure lines 525-528 catch for a body line, and no other line.
multi_cell_raises(txt) == \E k \in 1..Len(txt) : txt[k] = BULLET

\* Lines 454-530: laying out with fpdf raises, at a call of multi_cell that
\* no try statement guards.
fpdf_raises(rendered) ==
    \E i \in 1..Len(rendered) :
        IsListItemLine(rendered, i) /\ multi_cell_raises(ListItemText(rendered, i))

\* Lines 449-573: when fpdf can be imported, the bytes that it lays out
\* from the lines of the text, or the exception it raises on the way; else
\* the bytes of reportlab when that can be imported, else None.
generate_pdf_bytes(rendered, title) ==
    IF fpdf_installed
    THEN IF fpdf_raises(rendered) THEN Raised
         ELSE <<"%PDF", "fpdf", title>> \o rendered
    ELSE IF reportlab_installed THEN <<"%PDF", "reportlab">> \o rendered
    ELSE None

\* str.encode('utf-8'): a bytes object, which is no str.
encode(file_content) == <<"utf-8">> \o file_content

\* Lines 579-581: the button component around the base64 form of the page
\* that generate_rich_html_for_copy returns.
render_copy_button(rendered) ==
    <<"<button id=copyBtn>...b64DecodeUnicode(", "base64">>
        \o generate_rich_html_for_copy(rendered) \o <<")...">>

(***************************************************************************)
(* The session, src/app.py lines 847-1083                                  *)
(***************************************************************************)

\* Lines 857-867, the options of the selectbox.
ExportFormats ==
    {"PDF (Direct Download)", "PDF (Browser Print-Ready HTML)",
     "HTML (Rich Document)", "Plain Text (.txt)", "Markdown (.md)",
     "reStructuredText (.rst)", "LaTeX (.tex)"}

\* Line 849.
ViewModes == {"Split Screen", "Full Render Only"}

\* Lines 849-868 and 893-898: the widgets at their defaults and the session
\* state of a first run.
SessionStart ==
    /\ input_text_area = <<>>
    /\ raw_text = <<>>
    /\ rendered_text = <<>>
    /\ is_rendered = FALSE
    /\ view_mode = "Split Screen"
    /\ allow_html = TRUE
    /\ enable_latex_fix = TRUE
    /\ export_format = "PDF (Direct Download)"
    /\ preview = {}
    /\ copy_button = {}
    /\ download = {}
    /\ stats = {}

\* A session that nobody uses, on an interpreter without PDF library.
NoSession ==
    /\ SessionStart
    /\ fpdf_installed = FALSE
    /\ reportlab_installed = FALSE

\* Lines 938, 963 and 974 without the test of rendered_text.strip().
ShownWhenRendered(rendered, rendered_flag) == rendered_flag

\* Lines 938, 963 and 974: is_rendered and rendered_text.strip()
Shown(rendered, rendered_flag) == rendered_flag /\ Strip(rendered) # <<>>

\* Lines 990-1044: file_bytes, file_ext and mime of the chosen format.
ExportFile(format, rendered, raw) ==
    CASE format = "HTML (Rich Document)" ->
           [file_bytes |-> encode(generate_full_html(rendered, fname)),
            file_ext |-> "html", mime |-> "text/html"]
      [] format = "PDF (Direct Download)" ->
           IF generate_pdf_bytes(rendered, fname) # None
           THEN [file_bytes |-> generate_pdf_bytes(rendered, fname),
                 file_ext |-> "pdf", mime |-> "application/pdf"]
           ELSE [file_bytes |-> encode(generate_pdf_via_js(rendered, fname)),
                 file_ext |-> "html", mime |-> "text/html"]
      [] format = "PDF (Browser Print-Ready HTML)" ->
           [file_bytes |-> encode(generate_pdf_via_js(rendered, fname)),
            file_ext |-> "html", mime |-> "text/html"]
      [] format = "Plain Text (.txt)" ->
           [file_bytes |-> encode(generate_txt(raw)),
            file_ext |-> "txt", mime |-> "text/plain"]
      [] format = "Markdown (.md)" ->
           [file_bytes |-> encode(generate_md(raw)),
            file_ext |-> "md", mime |-> "text/markdown"]
      [] format = "reStructuredText (.rst)" ->
           [file_bytes |-> encode(generate_rst(raw)),
            file_ext |-> "rst", mime |-> "text/x-rst"]
      [] format = "LaTeX (.tex)" ->
           [file_bytes |-> encode(generate_latex_doc(raw)),
            file_ext |-> "tex", mime |-> "application/x-tex"]

\* Line 998: the call of generate_pdf_bytes raises, which ends the run of
\* the script there.
ExportRaises(format, rendered) ==
    /\ format = "PDF (Direct Download)"
    /\ generate_pdf_bytes(rendered, fname) = Raised

\* Lines 915-1083: one run of the script on the session state and the widget
\* values it finds, which builds the page.  The preview and the copy button
\* are built before the export dispatch, the download button and the
\* statistics after it.
ScriptRun ==
    /\ preview' = IF Shown(rendered_text', is_rendered')
                  THEN {[body |-> rendered_text', unsafe_allow_html |-> allow_html']}
                  ELSE {}
    /\ copy_button' = IF Shown(rendered_text', is_rendered')
                      THEN {render_copy_button(rendered_text')}
                      ELSE {}
    /\ download' = IF /\ Shown(rendered_text', is_rendered')
                      /\ ~ExportRaises(export_format', rendered_text')
                   THEN {ExportFile(export_format', rendered_text', raw_text')}
                   ELSE {}
    /\ stats' = IF /\ Shown(rendered_text', is_rendered')
                   /\ ~ExportRaises(export_format', rendered_text')
                THEN {Statistics(raw_text')}
                ELSE {}

(***************************************************************************)
(* Inputs of the normalizer                                                *)
(***************************************************************************)
MaxLen == 4

NormAlphabet ==
    {X, NL, D, LB, RB, LP, RP, Begin("equation"), End("equation")}

NormInputs == SeqsUpTo(NormAlphabet, MaxLen)

(***************************************************************************)
(* The normalizer applied once, and once more to its own result            *)
(***************************************************************************)
InitNorm ==
    /\ text \in NormInputs
    /\ out = <<>>
    /\ again = <<>>
    /\ op = "input"
    /\ NoSession

Normalize ==
    /\ op = "input"
    /\ out' = preprocess_text(text)
    /\ op' = "normalized"
    /\ UNCHANGED <<text, again>>
    /\ UNCHANGED <<session, page>>

Renormalize ==
    /\ op = "normalized"
    /\ again' = preprocess_text(out)
    /\ op' = "renormalized"
    /\ UNCHANGED <<text, out>>
    /\ UNCHANGED <<session, page>>

NextNorm == Normalize \/ Renormalize

SpecNorm == InitNorm /\ [][NextNorm]_vars

(***************************************************************************)
(* The export generators, each applied to an input text                    *)
(***************************************************************************)
GenerateTxt ==
    /\ op = "input"
    /\ out' = generate_txt(text)
    /\ op' = "txt"
    /\ UNCHANGED <<text, again>>
    /\ UNCHANGED <<session, page>>

GenerateMd ==
    /\ op = "input"
    /\ out' = generate_md(text)
    /\ op' = "md"
    /\ UNCHANGED <<text, again>>
    /\ UNCHANGED <<session, page>>

GenerateRst ==
    /\ op = "input"
    /\ out' = generate_rst(text)
    /\ op' = "rst"
    /\ UNCHANGED <<text, again>>
    /\ UNCHANGED <<session, page>>

GenerateLatex ==
    /\ op = "input"
    /\ out' = generate_latex_doc(text)
    /\ op' = "latex"
    /\ UNCHANGED <<text, again>>
    /\ UNCHANGED <<session, page>>

GenerateRichHtml ==
    /\ op = "input"
    /\ out' = generate_rich_html_for_copy(text)
    /\ op' = "html"
    /\ UNCHANGED <<text, again>>
    /\ UNCHANGED <<session, page>>

(***************************************************************************)
(* Every operation on short Markdown texts, the empty text among them      *)
(***************************************************************************)
MaxConv == 3

ConvAlphabet == {X, SP, NL, HASH}

ConvInputs == SeqsUpTo(ConvAlphabet, MaxConv)

Init ==
    /\ text \in ConvInputs
    /\ out = <<>>
    /\ again = <<>>
    /\ op = "input"
    /\ NoSession

Next ==
    \/ Normalize
    \/ Renormalize
    \/ GenerateTxt
    \/ GenerateMd
    \/ GenerateRst
    \/ GenerateLatex
    \/ GenerateRichHtml

Spec == Init /\ [][Next]_vars

(***************************************************************************)
(* generate_rst on header lines, links and images                          *)
(***************************************************************************)
MaxTitle == 4
MaxGroup == 2

\* #{1,5} of line 385.
RstLevels == 1..5

NonEmpty(S) == S \ {<<>>}

Titles == NonEmpty(SeqsUpTo({X, SP}, MaxTitle))

HeaderLine(level, title) == Repeat(HASH, level) \o <<SP>> \o title

AltTexts == SeqsUpTo({X, SP}, MaxGroup)

Urls == NonEmpty(SeqsUpTo({X, "/"}, MaxGroup))

MdLink(linktext, url) == <<"[">> \o linktext \o <<"]", "(">> \o url \o <<")">>

MdImage(alt, url) == <<BANG>> \o MdLink(alt, url)

RstInputs ==
    {HeaderLine(l, t) : l \in RstLevels, t \in Titles}
        \cup {MdLink(a, u) : a \in NonEmpty(AltTexts), u \in Urls}
        \cup {MdImage(a, u) : a \in AltTexts, u \in Urls}

InitRst ==
    /\ text \in RstInputs
    /\ out = <<>>
    /\ again = <<>>
    /\ op = "input"
    /\ NoSession

SpecRst == InitRst /\ [][GenerateRst]_vars

(***************************************************************************)
(* generate_latex_doc on fenced code blocks                                *)
(***************************************************************************)
MaxLang == 2
MaxCode == 3

Langs == SeqsUpTo({X}, MaxLang)

Codes == SeqsUpTo({X, SP, NL}, MaxCode)

FencedBlock(lang, code) == FENCE \o lang \o <<NL>> \o code \o <<NL>> \o FENCE

LatexInputs == {FencedBlock(l, c) : l \in Langs, c \in Codes}

InitLatex ==
    /\ text \in LatexInputs
    /\ out = <<>>
    /\ again = <<>>
    /\ op = "input"
    /\ NoSession

SpecLatex == InitLatex /\ [][GenerateLatex]_vars

(***************************************************************************)
(* generate_latex_doc on header lines: one header line, or two header      *)
(* lines one below the other                                               *)
(***************************************************************************)
MaxHead == 3

\* The patterns of lines 425-428 name the levels 1 to 4.
TexLevels == 1..4

\* Titles of plain text: letters, blanks and hashes, no inline markup.
PlainTitles == NonEmpty(SeqsUpTo({X, SP, HASH}, MaxHead))

ShortTitles == {t \in PlainTitles : Len(t) = 1}

HeaderInputs ==
    {HeaderLine(l, t) : l \in TexLevels, t \in PlainTitles}
        \cup {HeaderLine(l, t) \o <<NL>> \o HeaderLine(m, u) :
                l \in TexLevels, m \in TexLevels, t \in ShortTitles, u \in ShortTitles}

InitHeaders ==
    /\ text \in HeaderInputs
    /\ out = <<>>
    /\ again = <<>>
    /\ op = "input"
    /\ NoSession

SpecHeaders == InitHeaders /\ [][GenerateLatex]_vars

(***************************************************************************)
(* Every operation on short texts over the characters the patterns of the  *)
(* generators mention: fences left open, unmatched brackets, stars and     *)
(* dollars, table rows of any shape                                        *)
(***************************************************************************)
MaxAny == 3

AnyAlphabet == {X, SP, NL, HASH, TICK, STAR, DASH, PIPE, D, "[", "]", "(", ")"}

AnyInputs == SeqsUpTo(AnyAlphabet, MaxAny)

InitAny ==
    /\ text \in AnyInputs
    /\ out = <<>>
    /\ again = <<>>
    /\ op = "input"
    /\ NoSession

SpecAny == InitAny /\ [][Next]_vars

(***************************************************************************)
(* generate_txt on marked-up texts: a word in emphasis stars, in inline-   *)
(* code backticks or in math dollars, and the sentence                     *)
(*     **bold** and <backtick>code<backtick> and $$x^2$$                    *)
(***************************************************************************)
MaxWord == 5

\* Words of letters and blanks that start and end with a letter.
Words == {w \in NonEmpty(SeqsUpTo({X, SP}, MaxWord)) : w[1] = X /\ w[Len(w)] = X}

\* The opening and closing markers of emphasis, inline code and math.
Markers == {<<STAR>>, <<STAR, STAR>>, <<STAR, STAR, STAR>>, <<TICK>>, <<D>>, <<D, D>>}

MarkedUp(marker, w) == marker \o w \o marker

TxtExample ==
    <<STAR, STAR, "b", "o", "l", "d", STAR, STAR, SP, "a", "n", "d", SP,
      TICK, "c", "o", "d", "e", TICK, SP, "a", "n", "d", SP,
      D, D, "x", "^", "2", D, D>>

TxtExampleStripped ==
    <<"b", "o", "l", "d", SP, "a", "n", "d", SP, "c", "o", "d", "e", SP,
      "a", "n", "d", SP, "x", "^", "2">>

TxtInputs == {MarkedUp(m, w) : m \in Markers, w \in Words} \cup {TxtExample}

InitTxt ==
    /\ text \in TxtInputs
    /\ out = <<>>
    /\ again = <<>>
    /\ op = "input"
    /\ NoSession

SpecTxt == InitTxt /\ [][GenerateTxt]_vars

(***************************************************************************)
(* The events of a session.  Streamlit runs the callback of a clicked      *)
(* button and then the whole script again; a changed widget value also     *)
(* runs the script again.                                                  *)
(***************************************************************************)
MaxDoc == 1

\* The texts a user types: nothing, blanks, letters, a display-math span
\* that the normalizer rewrites, and a list item, each with up to MaxDoc
\* characters of content.
SessionTexts ==
    {Repeat(SP, k) : k \in 0..MaxDoc}
        \cup {Repeat(X, k) : k \in 1..MaxDoc}
        \cup {<<LB>> \o Repeat(X, k) \o <<RB>> : k \in 0..MaxDoc}
        \cup {<<DASH, SP>> \o Repeat(X, k) : k \in 1..MaxDoc}

conversion == <<text, out, again, op>>

widgets == <<view_mode, allow_html, enable_latex_fix, export_format>>

libraries == <<fpdf_installed, reportlab_installed>>

\* Lines 919-925 and 945-951: the user leaves the text area with a new text.
EditText(t) ==
    /\ t # input_text_area
    /\ input_text_area' = t
    /\ UNCHANGED <<raw_text, rendered_text, is_rendered, widgets, libraries, conversion>>
    /\ ScriptRun

\* Lines 901-907 with the test of line 903 taken as true, then the script.
on_render_click_always_fixes ==
    /\ raw_text' = input_text_area
    /\ rendered_text' = preprocess_text(raw_text')
    /\ is_rendered' = TRUE
    /\ UNCHANGED <<input_text_area, widgets, libraries, conversion>>
    /\ ScriptRun

\* Lines 901-907, then the script.
on_render_click ==
    /\ raw_text' = input_text_area
    /\ rendered_text' = IF enable_latex_fix THEN preprocess_text(raw_text')
                        ELSE raw_text'
    /\ is_rendered' = TRUE
    /\ UNCHANGED <<input_text_area, widgets, libraries, conversion>>
    /\ ScriptRun

\* Lines 909-913 without line 910, then the script.
on_clear_click_keeps_raw_text ==
    /\ rendered_text' = <<>>
    /\ is_rendered' = FALSE
    /\ input_text_area' = <<>>
    /\ UNCHANGED <<raw_text, widgets, libraries, conversion>>
    /\ ScriptRun

\* Lines 909-913, then the script.
on_clear_click ==
    /\ raw_text' = <<>>
    /\ rendered_text' = <<>>
    /\ is_rendered' = FALSE
    /\ input_text_area' = <<>>
    /\ UNCHANGED <<widgets, libraries, conversion>>
    /\ ScriptRun

\* Line 849: the other layout.  The text area of the new layout is a widget
\* with other parameters under the same key: it keeps the text typed so far
\* or starts again from its value argument, raw_text.
SwitchView ==
    /\ view_mode' \in ViewModes \ {view_mode}
    /\ input_text_area' \in {input_text_area, raw_text}
    /\ UNCHANGED <<raw_text, rendered_text, is_rendered, allow_html,
                   enable_latex_fix, export_format, libraries, conversion>>
    /\ ScriptRun

\* Line 850.
ToggleHtml ==
    /\ allow_html' = ~allow_html
    /\ UNCHANGED <<input_text_area, raw_text, rendered_text, is_rendered, view_mode,
                   enable_latex_fix, export_format, libraries, conversion>>
    /\ ScriptRun

\* Line 851.
ToggleFix ==
    /\ enable_latex_fix' = ~enable_latex_fix
    /\ UNCHANGED <<input_text_area, raw_text, rendered_text, is_rendered, view_mode,
                   allow_html, export_format, libraries, conversion>>
    /\ ScriptRun

\* Lines 855-868.
SelectFormat(format) ==
    /\ format # export_format
    /\ export_format' = format
    /\ UNCHANGED <<input_text_area, raw_text, rendered_text, is_rendered, view_mode,
                   allow_html, enable_latex_fix, libraries, conversion>>
    /\ ScriptRun

InitSession ==
    /\ SessionStart
    /\ fpdf_installed \in BOOLEAN
    /\ reportlab_installed \in BOOLEAN
    /\ text = <<>>
    /\ out = <<>>
    /\ again = <<>>
    /\ op = "input"

NextSession ==
    \/ \E t \in SessionTexts : EditText(t)
    \/ on_render_click
    \/ on_clear_click
    \/ SwitchView
    \/ ToggleHtml
    \/ ToggleFix
    \/ \E format \in ExportFormats : SelectFormat(format)

SpecSession == InitSession /\ [][NextSession]_vars

(***************************************************************************)
(* The statistics of a text: pipe tables, code fences and dollars          *)
(***************************************************************************)
MaxRows == 2
MaxPieces == 5
MaxMath == 5

\* A row of two cells, A | B, with or without the outer pipes.
TableRow(a, b, piped) ==
    IF piped THEN <<PIPE, SP, a, SP, PIPE, SP, b, SP, PIPE>>
    ELSE <<a, SP, PIPE, SP, b>>

\* The separator line ---|---, with or without the outer pipes.
SeparatorRow(piped) ==
    IF piped THEN <<PIPE, DASH, DASH, DASH, PIPE, DASH, DASH, DASH, PIPE>>
    ELSE <<DASH, DASH, DASH, PIPE, DASH, DASH, DASH>>

RECURSIVE DataRows(_, _)
DataRows(n, piped) ==
    IF n = 0 THEN <<>> ELSE <<NL>> \o TableRow("1", "2", piped) \o DataRows(n - 1, piped)

\* A header row, the separator line and n data rows.
Table(n, piped) ==
    TableRow("A", "B", piped) \o <<NL>> \o SeparatorRow(piped) \o DataRows(n, piped)

TableInputs == {Table(n, piped) : n \in 0..MaxRows, piped \in BOOLEAN}

\* A text made of fence markers, letters and newlines.
Pieces == {FENCE, <<X>>, <<NL>>}

RECURSIVE Join(_)
Join(ps) == IF ps = <<>> THEN <<>> ELSE ps[1] \o Join(Tail(ps))

PieceSeqs == SeqsUpTo(Pieces, MaxPieces)

\* Two fenced code blocks, one below the other: four fence markers.
TwoCodeBlocks ==
    FENCE \o <<X, NL, X, NL>> \o FENCE \o <<NL>> \o FENCE \o <<X, NL, X, NL>> \o FENCE

FenceInputs == {Join(ps) : ps \in PieceSeqs} \cup {TwoCodeBlocks}

MathInputs == SeqsUpTo({D, X, NL}, MaxMath)

StatInputs == TableInputs \cup FenceInputs \cup MathInputs

InitStats ==
    /\ text \in StatInputs
    /\ out = <<>>
    /\ again = <<>>
    /\ op = "input"
    /\ NoSession

\* Lines 1064-1072 on a text.
ComputeStatistics ==
    /\ op = "input"
    /\ stats' = {Statistics(text)}
    /\ op' = "stats"
    /\ UNCHANGED <<text, out, again, session, preview, copy_button, download>>

SpecStats == InitStats /\ [][ComputeStatistics]_vars

(***************************************************************************)
(* generate_rich_html_for_copy on header lines of one to six hashes        *)
(***************************************************************************)
\* The heading levels of HTML.
HtmlLevels == 1..6

HtmlInputs == {HeaderLine(k, t) : k \in HtmlLevels, t \in Titles}

InitHtml ==
    /\ text \in HtmlInputs
    /\ out = <<>>
    /\ again = <<>>
    /\ op = "input"
    /\ NoSession

SpecHtml == InitHtml /\ [][GenerateRichHtml]_vars

(***************************************************************************)
(* Inputs that already hold a $$-wrapped environment block:                *)
(* NEWLINE $$ NEWLINE \begin{env} body \end{env} NEWLINE $$ NEWLINE        *)
(***************************************************************************)
MaxBody == 4

EnvNames == {environments[k] : k \in 1..Len(environments)}

\* Environments that may be nested in the body of a wrapped block.
NestedEnvs == {"equation", "aligned"}

\* Bodies hold no math delimiter: no $, \[, \], \( or \).
BodyAlphabet == {X, NL} \cup {Begin(e) : e \in NestedEnvs} \cup {End(e) : e \in NestedEnvs}

Bodies == SeqsUpTo(BodyAlphabet, MaxBody)

WrappedBlock(env, body) ==
    <<NL, D, D, NL, Begin(env)>> \o body \o <<End(env), NL, D, D, NL>>

InitWrapped ==
    /\ \E env \in EnvNames, body \in Bodies : text = WrappedBlock(env, body)
    /\ out = <<>>
    /\ again = <<>>
    /\ op = "input"
    /\ NoSession

SpecWrapped == InitWrapped /\ [][NextNorm]_vars

(***************************************************************************)
(* Claims about preprocess_text                                            *)
(***************************************************************************)

\* C1: normalization is idempotent: normalizing the normalized text once
\* more gives the normalized text again.
C1_Idempotent == op = "renormalized" => again = out

\* C2: a text NEWLINE $$ NEWLINE \begin{env} body \end{env} NEWLINE $$ NEWLINE
\* whose body holds no math delimiter is returned unchanged (checked under
\* SpecWrapped, whose inputs all have this form).
C2_NoDoubleWrap == op = "normalized" => out = text

\* No token of s strictly between positions i and j is in the set T.
NoneBetween(s, i, j, T) == \A k \in (i + 1)..(j - 1) : s[k] \notin T

\* The spans open ... close of s under leftmost, shortest, non-overlapping
\* matching, where the body may hold any token but those of the set stop
\* (and never the closing delimiter): i opens a span when no earlier opener
\* reaches i, and the span closes at the first closer after i.
SpansOf(s, open, close, stop) ==
    {p \in (1..Len(s)) \X (1..Len(s)) :
        /\ p[1] < p[2]
        /\ s[p[1]] = open
        /\ s[p[2]] = close
        /\ NoneBetween(s, p[1], p[2], {close} \cup stop)
        /\ ~\E h \in 1..(p[1] - 1) :
              /\ s[h] = open
              /\ NoneBetween(s, h, p[1], {close} \cup stop)}

HasToken(s, T) == \E k \in 1..Len(s) : s[k] \in T

BeginTokens == {Begin(e) : e \in EnvNames}

\* Rules 2 and 3 of the normalizer find nothing in s: it holds no \( and no
\* \begin{env}.
OnlyDisplayMath(s) == ~HasToken(s, {LP} \cup BeginTokens)

\* Every \[ body \] span of s appears in o as opening, body, closing, at the
\* place the earlier replacements shift it to.
DisplaySpansReplacedBy(s, o, opening, closing) ==
    LET spans == SpansOf(s, LB, RB, {})
        delta == Len(opening) + Len(closing) - 2
    IN  /\ Len(o) = Len(s) + delta * Cardinality(spans)
        /\ \A p \in spans :
              LET before == Cardinality({q \in spans : q[1] < p[1]})
              IN  OccursAt(o, opening \o SubSeq(s, p[1] + 1, p[2] - 1) \o closing,
                           p[1] + delta * before)

\* C3 as stated: every \[ body \] span becomes NEWLINE $$ NEWLINE body
\* NEWLINE $$ NEWLINE, the body verbatim.
C3_DisplayWithNewlines ==
    (op = "normalized" /\ OnlyDisplayMath(text))
        => DisplaySpansReplacedBy(text, out, <<NL, D, D, NL>>, <<NL, D, D, NL>>)

\* C3 amended: every \[ body \] span (shortest match, the body may hold
\* newlines) becomes $$ body $$ with no newline added, the body verbatim.
C3_DisplayDollars ==
    (op = "normalized" /\ OnlyDisplayMath(text))
        => DisplaySpansReplacedBy(text, out, <<D, D>>, <<D, D>>)

\* C3 witness: a normalized text with two \[ \] spans, so that the second
\* one is shifted by the replacement of the first.
C3_Witness ==
    /\ op = "normalized"
    /\ OnlyDisplayMath(text)
    /\ Cardinality(SpansOf(text, LB, RB, {})) = 2
    /\ out = <<D, D, D, D, D, D, D, D>>

\* Rules 1 and 3 of the normalizer find nothing in s: it holds no \[ and no
\* \begin{env}.
OnlyInlineMath(s) == ~HasToken(s, {LB} \cup BeginTokens)

\* o is s with the two delimiters of every span of the set spans turned
\* into $, and every other token kept in place.
InlineSpansReplaced(s, o, spans) ==
    /\ Len(o) = Len(s)
    /\ \A k \in 1..Len(s) :
          o[k] = IF \E p \in spans : k = p[1] \/ k = p[2] THEN D ELSE s[k]

\* C4 as stated: every \( body \) span becomes $body$, whether or not the
\* body holds newlines.
C4_InlineAnyBody ==
    (op = "normalized" /\ OnlyInlineMath(text))
        => \A p \in SpansOf(text, LP, RP, {}) :
              /\ Len(out) = Len(text)
              /\ out[p[1]] = D
              /\ out[p[2]] = D
              /\ SubSeq(out, p[1] + 1, p[2] - 1) = SubSeq(text, p[1] + 1, p[2] - 1)

\* C4 amended: every \( body \) span whose body holds no newline becomes
\* $body$, the body verbatim; a \( whose \) lies on a later line is left as
\* it is, like every other token.
C4_InlineSingleLine ==
    (op = "normalized" /\ OnlyInlineMath(text))
        => InlineSpansReplaced(text, out, SpansOf(text, LP, RP, {NL}))

\* C4 witness: a normalized text with a single-line \( \) span and a \( \)
\* pair that a newline separates.
C4_Witness ==
    /\ op = "normalized"
    /\ OnlyInlineMath(text)
    /\ SpansOf(text, LP, RP, {NL}) # {}
    /\ SpansOf(text, LP, RP, {}) \ SpansOf(text, LP, RP, {NL}) # {}

\* The \begin{env} ... \end{env} blocks of s that stand on their own line
\* (from a line start to a line end) with no $$ right before or after.
OwnLineBlocks(s, env) ==
    {p \in (1..Len(s)) \X (1..Len(s)) :
        /\ p[1] < p[2]
        /\ s[p[1]] = Begin(env)
        /\ s[p[2]] = End(env)
        /\ NoneBetween(s, p[1], p[2], {End(env)})
        /\ (p[1] = 1 \/ s[p[1] - 1] = NL)
        /\ (p[2] = Len(s) \/ s[p[2] + 1] = NL)
        /\ ~OccursAt(s, <<D, D>>, p[1] - 3)
        /\ ~OccursAt(s, <<D, D>>, p[2] + 2)}

\* In o, position p comes after a $$ with only newlines in between.
DollarsBefore(o, p) ==
    \E q \in 2..(p - 1) :
        /\ o[q - 1] = D
        /\ o[q] = D
        /\ \A k \in (q + 1)..(p - 1) : o[k] = NL

\* In o, position p is followed by a $$ with only newlines in between.
DollarsAfter(o, p) ==
    \E q \in (p + 1)..(Len(o) - 1) :
        /\ o[q] = D
        /\ o[q + 1] = D
        /\ \A k \in (p + 1)..(q - 1) : o[k] = NL

\* The block blk occurs in o enclosed in $$ lines.
IsWrapped(o, blk) ==
    \E p \in 1..Len(o) :
        /\ OccursAt(o, blk, p)
        /\ DollarsBefore(o, p)
        /\ DollarsAfter(o, p + Len(blk) - 1)

\* Rules 1 and 2 of the normalizer find nothing in s: it holds no \[ and no
\* \(.
OnlyEnvironments(s) == ~HasToken(s, {LB, LP})

\* C5: every environment block that stands on its own line with no $$ right
\* before or after it is wrapped in $$ lines, also on the first line of the
\* text and for two blocks on consecutive lines.
C5_OwnLineBlockWrapped ==
    (op = "normalized" /\ OnlyEnvironments(text))
        => \A env \in EnvNames : \A p \in OwnLineBlocks(text, env) :
              IsWrapped(out, SubSeq(text, p[1], p[2]))

\* s has an opening \[ or \( with no later closing delimiter, and no
\* construct a rule of the normalizer applies to: no \[ with a later \], no
\* \( with a later \), no \begin{env} with a later \end{env}.
UnmatchedOnly(s) ==
    /\ HasToken(s, {LB, LP})
    /\ ~\E i, j \in 1..Len(s) :
          /\ i < j
          /\ \/ s[i] = LB /\ s[j] = RB
             \/ s[i] = LP /\ s[j] = RP
             \/ \E e \in EnvNames : s[i] = Begin(e) /\ s[j] = End(e)

\* C6: a text with an unmatched opening \[ or \( and no other normalizable
\* construct is returned unchanged.
C6_UnmatchedUntouched ==
    (op = "normalized" /\ UnmatchedOnly(text)) => out = text

\* C6 witness: such a text, normalized, holding both kinds of opener, a
\* newline and a stray \begin.
C6_Witness ==
    /\ op = "normalized"
    /\ UnmatchedOnly(text)
    /\ HasToken(text, {LB})
    /\ HasToken(text, {LP})
    /\ HasToken(text, {NL})
    /\ HasToken(text, BeginTokens)
    /\ out = text

(***************************************************************************)
(* Claims about the export generators                                      *)
(***************************************************************************)

\* What the normalizer and the converters other than the rich-HTML one
\* return for the empty text.
EmptyInEmptyOut ==
    /\ op \in {"normalized", "txt", "md", "rst"} => out = <<>>
    /\ op = "renormalized" => again = <<>>
    /\ op = "latex" => out = preamble \o postamble

\* C7 as stated: for the empty text the normalizer and the rich-HTML,
\* plain-text, Markdown and reStructuredText converters return the empty
\* text, and the LaTeX converter returns preamble followed by postamble.
C7_EmptyInputAllEmpty ==
    text = <<>> => (EmptyInEmptyOut /\ (op = "html" => out = <<>>))

\* C7 amended: for the empty text the normalizer and the plain-text, Markdown
\* and reStructuredText converters return the empty text, the LaTeX converter
\* returns preamble followed by postamble, and generate_rich_html_for_copy
\* returns its fixed HTML page around the literal of the empty string.
C7_EmptyInput ==
    text = <<>>
        => (EmptyInEmptyOut
            /\ (op = "html" => out = HtmlHead \o <<"'", "'">> \o HtmlTail))

\* C7 witness: the LaTeX converter has run on the empty text.
C7_Witness == text = <<>> /\ op = "latex" /\ out = preamble \o postamble

\* The underline characters of the levels 1 to 5, as the claim lists them.
ClaimedUnderline == <<"=", "-", "~", "^", "\"">>

\* The header block the claim describes for a title: the title line and
\* right below it an underline of the title's length, for level 1 with a
\* same overline above.
ClaimedHeader(level, title) ==
    LET u == Repeat(ClaimedUnderline[level], Len(title))
    IN  IF level = 1 THEN u \o <<NL>> \o title \o <<NL>> \o u
        ELSE title \o <<NL>> \o u

\* C8: in the output of generate_rst every header line of level 1 to 5
\* appears as the title followed by an underline of the level's character
\* and of the title's length, with an overline for level 1, after all
\* substitutions of generate_rst have run.
C8_HeaderUnderline ==
    op = "rst" =>
        \A l \in RstLevels : \A t \in Titles :
            text = HeaderLine(l, t) => out = ClaimedHeader(l, Strip(t))

\* C9: generate_rst turns every image into the two-line image directive and
\* every plain link into the RST link; an image with alt text never comes
\* out as a link.
C9_ImagesAndLinks ==
    op = "rst" =>
        \A a \in AltTexts : \A u \in Urls :
            /\ text = MdImage(a, u) =>
                  out = <<".", ".", SP, "image::", SP>> \o u
                            \o <<NL, SP, SP, SP, ":alt:", SP>> \o a
            /\ (a # <<>> /\ text = MdLink(a, u)) =>
                  out = <<TICK>> \o a \o <<SP, "<">> \o u \o <<">", TICK, "_">>

\* C10: generate_latex_doc turns every fenced code block into an lstlisting
\* environment, with the option [language=lang] exactly when the fence names
\* a language, and with the code body unchanged.
C10_FencedToLstlisting ==
    op = "latex" =>
        \A l \in Langs : \A c \in Codes :
            text = FencedBlock(l, c) =>
                /\ Contains(out, <<"\\begin{lstlisting}">>)
                /\ Contains(out, <<"\\end{lstlisting}">>)
                /\ Contains(out, <<"[language=">> \o l \o <<"]">>) <=> (l # <<>>)
                /\ Contains(out, <<NL>> \o c \o <<NL>>)
\* The command the claim names for a header of the given number of #.
ClaimedCommand(level) ==
    <<"\\section{", "\\subsection{", "\\subsubsection{", "\\paragraph{">>[level]

\* The LaTeX command the claim describes for a header line.
ClaimedTexHeader(level, title) == <<ClaimedCommand(level)>> \o title \o <<"}">>

\* The document body: what generate_latex_doc puts between preamble and
\* postamble.
IsTexBody(o, body) == o = preamble \o body \o postamble

IsText(o) == o \in Seq(STRING)

StartsWith(o, p) == OccursAt(o, p, 1)

EndsWith(o, p) == Len(o) >= Len(p) /\ OccursAt(o, p, Len(o) - Len(p) + 1)

\* C12: every converter is total.  For every input text, unclosed fences,
\* unmatched delimiters and irregular table rows among them,
\* generate_latex_doc returns a text that begins with the preamble and ends
\* with the postamble, and generate_rst, generate_txt, generate_md and
\* preprocess_text return a text.
C12_Total ==
    /\ op = "latex" =>
          /\ IsText(out)
          /\ Len(out) >= Len(preamble) + Len(postamble)
          /\ StartsWith(out, preamble)
          /\ EndsWith(out, <<NL, "\\end{document}">>)
    /\ op \in {"rst", "txt", "md", "normalized"} => IsText(out)
    /\ op = "renormalized" => IsText(again)

\* C12 witness: the LaTeX converter has run on a fence that is never closed.
C12_Witness ==
    /\ op = "latex"
    /\ text = <<TICK, TICK, TICK>>
    /\ StartsWith(out, preamble)
    /\ EndsWith(out, <<NL, "\\end{document}">>)
\* C13 as stated: the plain-text converter strips markup.  For the sentence
\* **bold** and (code in backticks) and $$x^2$$ its output contains
\* "bold and code and x^2", and the output for a word in emphasis stars,
\* inline-code backticks or math dollars holds no star, backtick or dollar.
C13_TxtStripsMarkup ==
    op = "txt" =>
        /\ text = TxtExample => Contains(out, TxtExampleStripped)
        /\ ~HasToken(out, {STAR, TICK, D})

\* C13 amended: the plain-text converter returns the raw text as it is, with
\* every emphasis star, inline-code backtick and math dollar of the input.
C13_TxtAsIs == op = "txt" => out = text

\* C13 witness: the plain-text converter has returned the example sentence
\* with its markers.
C13_Witness ==
    /\ op = "txt"
    /\ text = TxtExample
    /\ out = TxtExample
    /\ HasToken(out, {STAR}) /\ HasToken(out, {TICK}) /\ HasToken(out, {D})
(***************************************************************************)
(* Claims about the statistics                                             *)
(***************************************************************************)

\* C14: the table-row statistic counts the header row and the data rows of a
\* pipe table and leaves out its separator line, for a table written
\* A | B, ---|---, 1 | 2 and for the same table with leading and trailing
\* pipes.
C14_TableRows ==
    op = "stats" =>
        \A n \in 0..MaxRows : \A piped \in BOOLEAN :
            text = Table(n, piped) => \A st \in stats : st.tables = n + 1
\* The fence markers among the pieces of a text.
FenceMarkers(ps) == Cardinality({k \in 1..Len(ps) : ps[k] = FENCE})

\* C15: the code-block statistic is floor(n / 2) for a raw text with n
\* triple-backtick fence markers; two fenced code blocks (4 markers) give 2,
\* and an odd number of markers is rounded down.
C15_CodeBlocks ==
    op = "stats" =>
        \A st \in stats :
            /\ \A ps \in PieceSeqs :
                 text = Join(ps) => st.code_blocks = FenceMarkers(ps) \div 2
            /\ text = TwoCodeBlocks => st.code_blocks = 2

\* C15 witness: the statistic of a text with three fence markers, the last
\* fence left open, is 1.
C15_Witness ==
    /\ op = "stats"
    /\ text = FENCE \o <<X>> \o FENCE \o <<NL>> \o FENCE
    /\ stats = {Statistics(text)}
    /\ \A st \in stats : st.code_blocks = 1
\* Every dollar of s stands next to another dollar.
AllDollarsPaired(s) ==
    \A i \in 1..Len(s) :
        s[i] = D => \/ (i > 1 /\ s[i - 1] = D)
                    \/ (i < Len(s) /\ s[i + 1] = D)

\* Number of dollars right before position i.
DollarsBack(s, i) ==
    i - MaxOf({k \in 1..i : k = 1 \/ s[k - 1] # D})

\* The occurrences of $$ in s, none overlapping another: in every run of
\* dollars the first and second, the third and fourth, and so on.
DollarPairs(s) ==
    Cardinality({i \in 1..(Len(s) - 1) :
                    s[i] = D /\ s[i + 1] = D /\ DollarsBack(s, i) % 2 = 0})

\* C16: for a raw text in which every dollar is adjacent to another dollar
\* the inline-math statistic is 0, and the block-math statistic is the number
\* of occurrences of $$ divided by two.
C16_OnlyBlockMath ==
    op = "stats" =>
        \A st \in stats :
            AllDollarsPaired(text) =>
                /\ st.math_inline = 0
                /\ st.math_block = DollarPairs(text) \div 2

\* C16 witness: the statistics of $$x$$ count no inline math and one block.
C16_Witness ==
    /\ op = "stats"
    /\ text = <<D, D, X, D, D>>
    /\ AllDollarsPaired(text)
    /\ \A st \in stats : st.math_inline = 0 /\ st.math_block = 1
    /\ stats # {}
(***************************************************************************)
(* Claims about the rich-HTML page                                         *)
(***************************************************************************)
HeadingOpen == <<"<h1>", "<h2>", "<h3>", "<h4>", "<h5>", "<h6>">>

HeadingClose == <<"</h1>", "</h2>", "</h3>", "</h4>", "</h5>", "</h6>">>

HeadingTags == {HeadingOpen[k] : k \in HtmlLevels} \cup {HeadingClose[k] : k \in HtmlLevels}

\* C17 as stated: the rich-HTML converter itself rewrites a header line of k
\* hashes, 1 <= k <= 6, into the heading tag of level k around the title;
\* for # Title the result contains <h1>Title</h1>.
C17_HeadingTags ==
    op = "html" =>
        \A k \in HtmlLevels : \A t \in Titles :
            text = HeaderLine(k, t) =>
                Contains(out, <<HeadingOpen[k]>> \o Strip(t) \o <<HeadingClose[k]>>)

\* C17 amended: generate_rich_html_for_copy rewrites no header line itself.
\* For a header line of k hashes it returns its fixed page with the line,
\* hashes included, as the quoted argument of the external engine's
\* marked.parse, and the page holds no heading tag.
C17_HeaderLeftToMarked ==
    op = "html" =>
        \A k \in HtmlLevels : \A t \in Titles :
            text = HeaderLine(k, t) =>
                /\ Contains(out, <<"<!DOCTYPE html>...<script>...innerHTML = marked.parse(", "'">>
                                     \o Repeat(HASH, k) \o <<SP>> \o t \o <<"'", ");...</script>">>)
                /\ ~HasToken(out, HeadingTags)

\* C17 witness: the page for the line # x holds the quoted line.
C17_Witness ==
    /\ op = "html"
    /\ text = <<HASH, SP, X>>
    /\ Contains(out, <<"'", HASH, SP, X, "'">>)
    /\ ~HasToken(out, HeadingTags)
(***************************************************************************)
(* Claims about the session and its exports                                *)
(***************************************************************************)

\* The content type and the extension the claim declares for a text format.
DeclaredType(format) ==
    CASE format = "HTML (Rich Document)" -> <<"text/html", "html">>
      [] format = "Plain Text (.txt)" -> <<"text/plain", "txt">>
      [] format = "Markdown (.md)" -> <<"text/markdown", "md">>
      [] format = "reStructuredText (.rst)" -> <<"text/x-rst", "rst">>
      [] format = "LaTeX (.tex)" -> <<"application/x-tex", "tex">>

TextFormats ==
    {"HTML (Rich Document)", "Plain Text (.txt)", "Markdown (.md)",
     "reStructuredText (.rst)", "LaTeX (.tex)"}

\* C18: in every reachable state where an artifact is produced, each text
\* export format yields its declared content type and extension, and the
\* content of the Markdown artifact is the raw text unchanged.
C18_DeclaredTypes ==
    \A a \in download :
        /\ export_format \in TextFormats =>
              <<a.mime, a.file_ext>> = DeclaredType(export_format)
        /\ export_format = "Markdown (.md)" => a.file_bytes = <<"utf-8">> \o raw_text

\* C18 witness: a Markdown artifact has been produced from a raw text that
\* the normalizer rewrote for the preview.
C18_Witness ==
    /\ export_format = "Markdown (.md)"
    /\ raw_text = <<LB, X, RB>>
    /\ rendered_text = <<D, D, X, D, D>>
    /\ download = {[file_bytes |-> <<"utf-8", LB, X, RB>>, file_ext |-> "md",
                    mime |-> "text/markdown"]}
\* The last Render left the normalized form of the raw text in the session.
Normalized == is_rendered /\ rendered_text = preprocess_text(raw_text)

\* What a converter that consumes the text t puts in the file of a format.
\* The texts of a session hold no Markdown construct, so the reStructuredText
\* converter returns t and the LaTeX converter its preamble, t and its
\* postamble.
FileFrom(format, t) ==
    CASE format = "HTML (Rich Document)" ->
           <<"utf-8", "<!DOCTYPE html>...<title>", "rendered_document",
             "</title>...marked.parse(", "'">> \o ReprBody(t)
               \o <<"'", ");...renderMathInElement...</html>">>
      [] format \in {"Plain Text (.txt)", "Markdown (.md)", "reStructuredText (.rst)"} ->
           <<"utf-8">> \o t
      [] format = "LaTeX (.tex)" ->
           <<"utf-8", "\\documentclass...\\lstset{...}", NL, NL, "\\begin{document}", NL>>
               \o t \o <<NL, "\\end{document}">>

\* C19 as stated: after a Render with auto-fix enabled the preview and every
\* export converter (HTML, plain text, Markdown, reStructuredText, LaTeX)
\* receive the normalized text preprocess_text(raw), not the raw text.
C19_AllFromNormalized ==
    Normalized =>
        /\ \A p \in preview : p.body = preprocess_text(raw_text)
        /\ \A a \in download :
             export_format \in TextFormats =>
                 a.file_bytes = FileFrom(export_format, preprocess_text(raw_text))

\* C19 amended: after a Render with auto-fix enabled the preview and the
\* HTML export receive the normalized text preprocess_text(raw), and the
\* plain-text, Markdown, reStructuredText and LaTeX converters receive the
\* raw text; every artifact is made from one of the two texts directly.
C19_FanOut ==
    Normalized =>
        /\ \A p \in preview : p.body = preprocess_text(raw_text)
        /\ \A a \in download :
             /\ export_format = "HTML (Rich Document)" =>
                   a.file_bytes = FileFrom(export_format, preprocess_text(raw_text))
             /\ export_format \in TextFormats \ {"HTML (Rich Document)"} =>
                   a.file_bytes = FileFrom(export_format, raw_text)

\* C19 witness: the display-math span \[x\] was rendered with auto-fix on and
\* the reStructuredText file holds the raw text, the preview the normalized.
C19_Witness ==
    /\ raw_text = <<LB, X, RB>>
    /\ rendered_text = <<D, D, X, D, D>>
    /\ export_format = "reStructuredText (.rst)"
    /\ preview = {[body |-> <<D, D, X, D, D>>, unsafe_allow_html |-> allow_html]}
    /\ \E a \in download : a.file_bytes = <<"utf-8", LB, X, RB>>
\* The session state of a first run, lines 893-898.
Unrendered == /\ raw_text = <<>>
              /\ rendered_text = <<>>
              /\ is_rendered = FALSE

\* C20: after any sequence of Render and Clear events, with any change of
\* the settings in between, whenever is_rendered is false both raw_text and
\* rendered_text are the empty string; and every Clear returns the session
\* to this initial state.
C20_ClearedWhenNotRendered ==
    /\ [](~is_rendered => Unrendered)
    /\ [][on_clear_click => Unrendered' /\ input_text_area' = <<>>]_vars

\* C20 witness: a session that is not rendered, with settings changed and a
\* text typed but not yet rendered.
C20_Witness ==
    /\ ~is_rendered
    /\ Unrendered
    /\ input_text_area = <<LB, X, RB>>
    /\ ~enable_latex_fix
    /\ ~allow_html
    /\ view_mode = "Full Render Only"
    /\ export_format = "LaTeX (.tex)"

\* The three session values that Render and Clear write.
rendering == <<raw_text, rendered_text, is_rendered>>

\* A step that writes a rendering: it leaves the session rendered and has
\* changed one of the three values.
RenderStep == is_rendered' /\ rendering' # rendering

\* C21: after any sequence of Render, Clear and auto-fix toggle events
\* rendered_text is raw_text or preprocess_text(raw_text); a Render sets it
\* to preprocess_text(raw_text) when auto-fix is on and to raw_text when it
\* is off; a change of the auto-fix toggle leaves raw_text, rendered_text
\* and is_rendered as they were.
C21_RenderedFromRaw ==
    /\ [](rendered_text \in {raw_text, preprocess_text(raw_text)})
    /\ [][RenderStep =>
            /\ raw_text' = input_text_area
            /\ enable_latex_fix => rendered_text' = preprocess_text(raw_text')
            /\ ~enable_latex_fix => rendered_text' = raw_text']_vars
    /\ [][enable_latex_fix' # enable_latex_fix => UNCHANGED rendering]_vars

\* C21 witness: a text with bracket delimiters was rendered with auto-fix
\* off and the toggle was then switched on without a new Render, so the
\* rendering still holds the raw text although auto-fix would change it.
C21_Witness ==
    /\ is_rendered
    /\ enable_latex_fix
    /\ raw_text = <<LB, X, RB>>
    /\ rendered_text = raw_text
    /\ preprocess_text(raw_text) = <<D, D, X, D, D>>
    /\ preview = {[body |-> <<LB, X, RB>>, unsafe_allow_html |-> allow_html]}

\* The footer has built the copy button, the download or the statistics.
Produced == copy_button # {} \/ download # {} \/ stats # {}

\* The text holds a character that is no whitespace.
HasInk(t) == \E k \in 1..Len(t) : ~IsSpace(t[k])

\* C22: in every reachable state the copy button, the download artifact and
\* the statistics are produced only if is_rendered is true and rendered_text
\* holds a character that is no whitespace; and once nothing is produced
\* (after a Clear, or after a Render of empty or blank input) something is
\* produced again only by a step that renders a text that is not blank.
C22_ProducedOnlyWhenShown ==
    /\ [](Produced => is_rendered /\ HasInk(rendered_text))
    /\ [][~Produced /\ Produced' =>
            /\ RenderStep
            /\ raw_text' = input_text_area
            /\ HasInk(raw_text')
            /\ HasInk(rendered_text')]_vars

\* C22 witness: a blank input was rendered, a text was then typed but not
\* rendered, and the page holds no copy button, download or statistics.
C22_Witness ==
    /\ is_rendered
    /\ raw_text = <<SP>>
    /\ rendered_text = <<SP>>
    /\ input_text_area = <<X>>
    /\ ~Produced
    /\ preview = {}

\* The artifact is a PDF file.
IsPdfFile(a) == a.mime = "application/pdf" /\ a.file_ext = "pdf"

\* The artifact is the print-ready HTML page of the rendered text.
IsPrintReadyPage(a) ==
    /\ a.mime = "text/html"
    /\ a.file_ext = "html"
    /\ a.file_bytes = encode(generate_pdf_via_js(rendered_text, fname))

\* C23: whenever the footer is shown the dispatch hands one artifact with
\* file_bytes, file_ext and mime to the download button, for each of the
\* seven formats; for the format PDF (Direct Download) it is a PDF file
\* (application/pdf, pdf) when fpdf or reportlab can be imported, the only
\* case in which generate_pdf_bytes returns no None, and otherwise the
\* print-ready HTML page (text/html, html).
C23_PdfOrFallback ==
    Shown(rendered_text, is_rendered) =>
        /\ Cardinality(download) = 1
        /\ \A a \in download :
             /\ DOMAIN a = {"file_bytes", "file_ext", "mime"}
             /\ export_format = "PDF (Direct Download)" =>
                  IF fpdf_installed \/ reportlab_installed
                  THEN IsPdfFile(a)
                  ELSE IsPrintReadyPage(a)

====
